---------------------------- MODULE Spec2Model ----------------------------
(*
  A model of turbopuffer-apigen's schema pipeline:
    OpenApiSpec::parse            (src/src/codegen.rs)
    extract_any_of_tuples         (src/src/codegen/shared.rs)
    build_tuple_fields            (src/src/codegen/shared.rs)
    render / render_schema (Go)   (src/src/codegen/go.rs)

  Strings are sequences of one-character strings, so that concatenation,
  prefix tests and per-character case mapping are computed, not assumed.
  Option<T> is <<>> for None and <<v>> for Some(v).
*)
EXTENDS Integers, Sequences, FiniteSets

VARIABLES
  pc,                \* position of the run
  yaml,              \* parse: the document
  type_prefixes,     \* parse: the managed-name prefixes
  spec,              \* parse: the returned Result<OpenApiSpec>
  parsed_schemas,    \* the schema map as handed to the lift / the renderer
  conflict_behavior, \* extract_any_of_tuples: the ConflictBehavior argument
  schemas,           \* extract_any_of_tuples / render: the (mutated) schema map
  new_schemas,       \* extract_any_of_tuples: the schemas lifted in this run
  result,            \* the Result of the last lift or render
  prefix_items,      \* build_tuple_fields: the argument
  fields,            \* build_tuple_fields: the returned Vec<TupleField>
  input_name         \* lower_camel_case / snake_to_camel_case: the argument

vars == <<pc, yaml, type_prefixes, spec, parsed_schemas, conflict_behavior,
          schemas, new_schemas, result, prefix_items, fields, input_name>>

---------------------------------------------------------------------------
(* Strings *)

\* The characters of the model in ascending byte order (the order of
\* String's Ord, which orders BTreeMap<String, _>).
Alphabet ==
  <<"$", "0", "1", "2", "3", "4", "5", "6", "7", "8", "9",
    "A", "B", "C", "D", "E", "F", "G", "H", "I", "J", "K", "L", "M",
    "N", "O", "P", "Q", "R", "S", "T", "U", "V", "W", "X", "Y", "Z",
    "_",
    "a", "b", "c", "d", "e", "f", "g", "h", "i", "j", "k", "l", "m",
    "n", "o", "p", "q", "r", "s", "t", "u", "v", "w", "x", "y", "z">>

CharCode(c) == CHOOSE i \in 1..Len(Alphabet) : Alphabet[i] = c

\* a < b in String's lexicographic byte order
RECURSIVE StrLess(_, _)
StrLess(a, b) ==
  IF b = <<>> THEN FALSE
  ELSE IF a = <<>> THEN TRUE
  ELSE IF a[1] = b[1] THEN StrLess(Tail(a), Tail(b))
  ELSE CharCode(a[1]) < CharCode(b[1])

\* str::starts_with
starts_with(s, prefix) ==
  /\ Len(prefix) <= Len(s)
  /\ SubSeq(s, 1, Len(prefix)) = prefix

\* The decimal rendering of a natural number (format!("{n}")).
RECURSIVE Decimal(_)
Decimal(n) ==
  IF n < 10 THEN <<Alphabet[n + 2]>>
  ELSE Decimal(n \div 10) \o <<Alphabet[(n % 10) + 2]>>

None == <<>>
Some(v) == <<v>>

---------------------------------------------------------------------------
(* The schema algebra: enum OpenApiSchema *)

AnyOf(any_of) == [kind |-> "AnyOf", any_of |-> any_of]

Object(properties, required, title) ==
  [kind |-> "Object", properties |-> properties, required |-> required,
   title |-> title]

ArrayList(items, title) ==
  [kind |-> "ArrayList", items |-> items, title |-> title]

ArrayTuple(additional_items, items, variant_name, drop, flatten, t) ==
  [kind |-> "ArrayTuple",
   additional_items |-> additional_items,
   prefix_items |-> items,
   x_turbopuffer_variant_name |-> variant_name,
   x_turbopuffer_variant_drop_on_conflict |-> drop,
   x_turbopuffer_flatten |-> flatten,
   title |-> t]

String(title) == [kind |-> "String", title |-> title]

Number(title, width) ==
  [kind |-> "Number", title |-> title, x_turbopuffer_width |-> width]

Boolean(title) == [kind |-> "Boolean", title |-> title]

Const(sconst, title) == [kind |-> "Const", sconst |-> sconst, title |-> title]

Ref(sref, title) == [kind |-> "Ref", sref |-> sref, title |-> title]

Any(title) == [kind |-> "Any", title |-> title]

\* OpenApiSchema::title
title(schema) == IF schema.kind = "AnyOf" THEN None ELSE schema.title

\* "#/components/schemas/", kept as one token at the head of a reference.
SCHEMA_REF_PREFIX == <<"#/components/schemas/">>

\* str::strip_prefix(SCHEMA_REF_PREFIX): Some(rest) or None
strip_prefix(sref) ==
  IF starts_with(sref, SCHEMA_REF_PREFIX)
  THEN Some(SubSeq(sref, Len(SCHEMA_REF_PREFIX) + 1, Len(sref)))
  ELSE None

\* The keys of a BTreeMap / the elements of a BTreeSet, ascending.
RECURSIVE SortedSeq(_)
SortedSeq(S) ==
  IF S = {} THEN <<>>
  ELSE LET m == CHOOSE a \in S : \A b \in S \ {a} : StrLess(a, b)
       IN <<m>> \o SortedSeq(S \ {m})

EmptyMap == <<>>

\* BTreeMap::insert / contains_key on maps kept as functions
contains_key(map, k) == k \in DOMAIN map
insert(map, k, v) == [x \in DOMAIN map \cup {k} |-> IF x = k THEN v ELSE map[x]]

---------------------------------------------------------------------------
(* OpenApiSpec::parse *)

\* Mutant of collect_refs: the ArrayTuple arm is missing, so references
\* under prefix items are not collected.
RECURSIVE collect_refs_skip_tuple(_, _)
collect_refs_skip_tuple(schema, refs) ==
  CASE schema.kind = "Ref" ->
         LET name == strip_prefix(schema.sref)
         IN IF name # None THEN refs \cup {name[1]} ELSE refs
    [] schema.kind = "AnyOf" ->
         refs \cup UNION {collect_refs_skip_tuple(schema.any_of[i], {}) :
                            i \in DOMAIN schema.any_of}
    [] schema.kind = "Object" ->
         refs \cup UNION {collect_refs_skip_tuple(schema.properties[p], {}) :
                            p \in DOMAIN schema.properties}
    [] schema.kind = "ArrayList" -> collect_refs_skip_tuple(schema.items, refs)
    [] OTHER -> refs

\* OpenApiSchema::collect_refs: refs plus every prefixed reference target
\* found in schema.
RECURSIVE collect_refs(_, _)
collect_refs(schema, refs) ==
  CASE schema.kind = "Ref" ->
         LET name == strip_prefix(schema.sref)
         IN IF name # None THEN refs \cup {name[1]} ELSE refs
    [] schema.kind = "AnyOf" ->
         refs \cup UNION {collect_refs(schema.any_of[i], {}) :
                            i \in DOMAIN schema.any_of}
    [] schema.kind = "Object" ->
         refs \cup UNION {collect_refs(schema.properties[p], {}) :
                            p \in DOMAIN schema.properties}
    [] schema.kind = "ArrayList" -> collect_refs(schema.items, refs)
    [] schema.kind = "ArrayTuple" ->
         refs \cup UNION {collect_refs(schema.prefix_items[i], {}) :
                            i \in DOMAIN schema.prefix_items}
    [] OTHER -> refs

\* A document node no variant of the untagged, deny_unknown_fields enum
\* accepts.
Invalid == [kind |-> "Invalid"]

\* serde_yaml::from_value::<OpenApiSchema>: succeeds iff the node and all
\* its children are one of the ten shapes.
RECURSIVE Deserializes(_)
Deserializes(v) ==
  CASE v.kind = "Invalid" -> FALSE
    [] v.kind = "AnyOf" -> \A i \in DOMAIN v.any_of : Deserializes(v.any_of[i])
    [] v.kind = "Object" ->
         \A p \in DOMAIN v.properties : Deserializes(v.properties[p])
    [] v.kind = "ArrayList" -> Deserializes(v.items)
    [] v.kind = "ArrayTuple" ->
         \A i \in DOMAIN v.prefix_items : Deserializes(v.prefix_items[i])
    [] OTHER -> TRUE

\* Whether some prefix of type_prefixes starts k.
is_managed(k, prefixes) ==
  \E i \in DOMAIN prefixes : starts_with(k, prefixes[i])

\* Mutant of parse: the referenced names are not intersected with the
\* non-managed top-level names.
parse_unfiltered(doc, prefixes) ==
  IF ~doc.wellformed THEN [status |-> "err", error |-> "yaml"]
  ELSE IF ~doc.has_schemas
  THEN [status |-> "err", error |-> "no schemas found in OpenAPI spec"]
  ELSE
    LET managed == {k \in DOMAIN doc.schemas : is_managed(k, prefixes)}
        referenced ==
          UNION {collect_refs(doc.schemas[k], {}) : k \in managed}
    IN IF \E k \in managed : ~Deserializes(doc.schemas[k])
       THEN [status |-> "err", error |-> "deserialize"]
       ELSE [status |-> "ok",
             managed_schemas |-> [k \in managed |-> doc.schemas[k]],
             unmanaged_schemas |-> referenced]

\* OpenApiSpec::parse.  doc.wellformed: serde_yaml::from_str succeeds;
\* doc.has_schemas: components.schemas is a mapping; doc.schemas: that mapping.
parse(doc, prefixes) ==
  IF ~doc.wellformed THEN [status |-> "err", error |-> "yaml"]
  ELSE IF ~doc.has_schemas
  THEN [status |-> "err", error |-> "no schemas found in OpenAPI spec"]
  ELSE
    LET managed == {k \in DOMAIN doc.schemas : is_managed(k, prefixes)}
        all_schemas == DOMAIN doc.schemas \ managed
        referenced ==
          UNION {collect_refs(doc.schemas[k], {}) : k \in managed}
    IN IF \E k \in managed : ~Deserializes(doc.schemas[k])
       THEN [status |-> "err", error |-> "deserialize"]
       ELSE [status |-> "ok",
             managed_schemas |-> [k \in managed |-> doc.schemas[k]],
             unmanaged_schemas |-> all_schemas \cap referenced]

---------------------------------------------------------------------------
(* The parse run: a document and a prefix list, then OpenApiSpec::parse *)

Null == <<>>

NameFa == <<"F", "a">>
NameU == <<"U">>
NameV == <<"V">>
NameZz == <<"Z", "z">>

RefTo(name) == Ref(SCHEMA_REF_PREFIX \o name, None)
\* a reference that lacks the schema-collection prefix
BareRefTo(name) == Ref(<<"#/definitions/">> \o name, None)

ParseLeaves ==
  {RefTo(NameU), RefTo(NameV), RefTo(NameFa), RefTo(NameZz), BareRefTo(NameU)}

ParseInner == {RefTo(NameU), RefTo(NameV), BareRefTo(NameV)}

\* The nodes a document entry is drawn from: every position collect_refs
\* descends into, a node that does not deserialize, and scalars.
ParseNodes ==
  {String(None), Invalid, AnyOf(<<RefTo(NameU), Invalid>>)}
    \cup ParseLeaves
    \cup {AnyOf(<<a, b>>) : a, b \in ParseInner}
    \cup {Object([p \in {<<"p">>} |-> a], <<<<"p">>>>, None) : a \in ParseInner}
    \cup {ArrayList(a, None) : a \in ParseInner}
    \cup {ArrayTuple(FALSE, <<Const(<<"c">>, None), a>>, None, FALSE, FALSE, None) :
            a \in ParseInner}
    \cup {ArrayList(AnyOf(<<ArrayTuple(FALSE, <<a>>, None, FALSE, FALSE, None)>>), None) :
            a \in ParseInner}

ParseSmall == {String(None), Invalid, RefTo(NameU), RefTo(NameZz)}

Absent == [kind |-> "Absent"]

\* The mapping under components.schemas: NameFa and NameU hold any node,
\* NameV a scalar, an undeserializable node or a reference; each may be absent.
ParseMappings ==
  {[k \in {n \in {NameFa, NameU, NameV} :
             (CASE n = NameFa -> fa [] n = NameU -> u [] OTHER -> v) # Absent}
      |-> CASE k = NameFa -> fa [] k = NameU -> u [] OTHER -> v] :
     fa \in ParseNodes \cup {Absent},
     u \in ParseNodes \cup {Absent},
     v \in ParseSmall \cup {Absent}}

ParseDocs ==
  {[wellformed |-> TRUE, has_schemas |-> TRUE, schemas |-> m] : m \in ParseMappings}
    \cup {[wellformed |-> FALSE, has_schemas |-> FALSE, schemas |-> EmptyMap],
          [wellformed |-> TRUE, has_schemas |-> FALSE, schemas |-> EmptyMap]}

PrefixLists == {<<<<"F">>>>, <<<<"F">>, <<"U">>>>}

ParseInit ==
  /\ pc = "start"
  /\ yaml \in ParseDocs
  /\ input_name = Null
  /\ type_prefixes \in PrefixLists
  /\ spec = Null
  /\ parsed_schemas = Null
  /\ conflict_behavior = Null
  /\ schemas = Null
  /\ new_schemas = Null
  /\ result = Null
  /\ prefix_items = Null
  /\ fields = Null

Parse ==
  /\ pc = "start"
  /\ spec' = parse(yaml, type_prefixes)
  /\ pc' = "parsed"
  /\ UNCHANGED <<input_name, yaml, type_prefixes, parsed_schemas, conflict_behavior,
                 schemas, new_schemas, result, prefix_items, fields>>

ParseNext == Parse

SpecParse == ParseInit /\ [][ParseNext]_vars

ParsedOk == pc = "parsed" /\ spec.status = "ok"

\* A Ref to the top-level schema `name` occurs in schema, directly or under
\* AnyOf alternatives, Object properties, ArrayList items or ArrayTuple
\* prefix items.
RECURSIVE OccursRef(_, _)
OccursRef(schema, name) ==
  CASE schema.kind = "Ref" -> schema.sref = SCHEMA_REF_PREFIX \o name
    [] schema.kind = "AnyOf" ->
         \E i \in DOMAIN schema.any_of : OccursRef(schema.any_of[i], name)
    [] schema.kind = "Object" ->
         \E p \in DOMAIN schema.properties : OccursRef(schema.properties[p], name)
    [] schema.kind = "ArrayList" -> OccursRef(schema.items, name)
    [] schema.kind = "ArrayTuple" ->
         \E i \in DOMAIN schema.prefix_items : OccursRef(schema.prefix_items[i], name)
    [] OTHER -> FALSE

TopLevelNames == DOMAIN yaml.schemas

NonManagedNames == {n \in TopLevelNames : ~is_managed(n, type_prefixes)}

\* The non-managed names some managed schema refers to.
DirectlyReferenced ==
  {n \in NonManagedNames :
     \E m \in DOMAIN spec.managed_schemas : OccursRef(spec.managed_schemas[m], n)}

\* The top-level names reachable from S by following Refs out of the
\* document's entries, managed or not.
RECURSIVE RefClosure(_)
RefClosure(S) ==
  LET step == S \cup {n \in TopLevelNames :
                        \E m \in S : OccursRef(yaml.schemas[m], n)}
  IN IF step = S THEN S ELSE RefClosure(step)

TransitivelyReferenced ==
  NonManagedNames \cap RefClosure(DOMAIN spec.managed_schemas)

\* C1: after a successful parse every name in unmanaged_schemas is a
\* top-level name matching no prefix that a managed schema refers to (at any
\* nesting depth); a non-managed name no managed schema refers to is not in
\* unmanaged_schemas; managed and unmanaged names are disjoint.
C1_UnmanagedAreReferenced ==
  ParsedOk =>
    /\ \A n \in spec.unmanaged_schemas :
         /\ n \in TopLevelNames
         /\ ~is_managed(n, type_prefixes)
         /\ \E m \in DOMAIN spec.managed_schemas :
              OccursRef(spec.managed_schemas[m], n)
    /\ \A n \in NonManagedNames :
         (\A m \in DOMAIN spec.managed_schemas :
            ~OccursRef(spec.managed_schemas[m], n))
           => n \notin spec.unmanaged_schemas
    /\ DOMAIN spec.managed_schemas \cap spec.unmanaged_schemas = {}

\* C1 witness: a parse that keeps one non-managed name and drops another,
\* unreferenced one.
C1_Witness ==
  /\ ParsedOk
  /\ spec.unmanaged_schemas # {}
  /\ NonManagedNames \ spec.unmanaged_schemas # {}
  /\ DOMAIN spec.managed_schemas # {}

\* C2 as stated: unmanaged_schemas is the set of non-managed top-level names
\* transitively reachable via Ref from a managed schema.
C2_Original_TransitiveClosure ==
  ParsedOk => spec.unmanaged_schemas = TransitivelyReferenced

\* C2 amended: unmanaged_schemas is exactly the set of non-managed top-level
\* names that are the target of a prefixed Ref inside a managed schema; a
\* non-managed schema reached only through another non-managed schema is
\* not included.
C2_UnmanagedAreDirectlyReferenced ==
  ParsedOk => spec.unmanaged_schemas = DirectlyReferenced

\* C2 witness: NameV is reached only through the non-managed NameU, which a
\* managed schema refers to; NameU is kept and NameV is not.
C2_Witness ==
  /\ ParsedOk
  /\ NameU \in spec.unmanaged_schemas
  /\ NameV \in TransitivelyReferenced
  /\ NameV \notin spec.unmanaged_schemas

---------------------------------------------------------------------------
(* extract_any_of_tuples *)

\* enum ConflictBehavior
Drop == "Drop"
AppendSuffix == "AppendSuffix"

is_dropped_tuple(item) ==
  item.kind = "ArrayTuple" /\ item.x_turbopuffer_variant_drop_on_conflict

\* Mutant of retain: the Const alternatives are removed too.
retain_drop_consts(any_of) ==
  SelectSeq(any_of,
            LAMBDA item : ~is_dropped_tuple(item) /\ item.kind # "Const")

\* Mutant of retain: nothing is removed.
retain_none(any_of) == any_of

\* any_of.retain(|item| !matches!(item, ArrayTuple { drop_on_conflict: true, .. }))
retain(any_of) == SelectSeq(any_of, LAMBDA item : ~is_dropped_tuple(item))

is_const(item) == item.kind = "Const"

\* sconsts that stops at the first literal
sconsts_first_only(items) ==
  LET cs == SelectSeq(items, is_const)
  IN [i \in 1..(IF Len(cs) > 1 THEN 1 ELSE Len(cs)) |-> cs[i].sconst]

\* prefix_items.iter().filter_map(Const => Some(sconst)): the literals of
\* the Const items, in order.
sconsts(items) ==
  LET cs == SelectSeq(items, is_const)
  IN [i \in 1..Len(cs) |-> cs[i].sconst]

\* Mutant of append_suffix: `if` for `while`, one retry only.
append_suffix_once(lifted, name, new_name, suffix) ==
  IF contains_key(lifted, new_name) THEN name \o Decimal(suffix) ELSE new_name

\* The while loop of the AppendSuffix arm: new_name, or name followed by the
\* first suffix, counting from `suffix`, that new_schemas does not hold.
RECURSIVE append_suffix(_, _, _, _)
append_suffix(lifted, name, new_name, suffix) ==
  IF contains_key(lifted, new_name)
  THEN append_suffix(lifted, name, name \o Decimal(suffix), suffix + 1)
  ELSE new_name

\* Mutant of lift_item: the tuple is registered but not replaced by a Ref.
lift_item_keep_inline(st, name, i, behavior) ==
  LET item == st.schemas[name].any_of[i]
      cs == IF item.kind = "ArrayTuple" THEN sconsts(item.prefix_items) ELSE <<>>
  IN IF item.kind # "ArrayTuple" \/ Len(cs) # 1 THEN st
     ELSE
       LET sconst == cs[1]
           ref_title == name \o sconst
           variant_name == item.x_turbopuffer_variant_name
           derived == IF variant_name # None
                      THEN name \o variant_name[1]
                      ELSE name \o sconst
           new_name == IF behavior = AppendSuffix
                       THEN append_suffix(st.new_schemas, derived, derived, 2)
                       ELSE derived
           ref == Ref(SCHEMA_REF_PREFIX \o new_name, Some(ref_title))
       IN [schemas |-> st.schemas,
           new_schemas |-> insert(st.new_schemas, new_name, item),
           err |-> IF contains_key(st.new_schemas, new_name)
                   THEN Some(new_name) ELSE None]

\* Mutant of lift_item: the Ref's title is built like the extraction name,
\* from the variant-name override when there is one.
lift_item_title_from_name(st, name, i, behavior) ==
  LET item == st.schemas[name].any_of[i]
      cs == IF item.kind = "ArrayTuple" THEN sconsts(item.prefix_items) ELSE <<>>
  IN IF item.kind # "ArrayTuple" \/ Len(cs) # 1 THEN st
     ELSE
       LET sconst == cs[1]
           ref_title == name \o (IF item.x_turbopuffer_variant_name # None
                                THEN item.x_turbopuffer_variant_name[1] ELSE sconst)
           variant_name == item.x_turbopuffer_variant_name
           derived == IF variant_name # None
                      THEN name \o variant_name[1]
                      ELSE name \o sconst
           new_name == IF behavior = AppendSuffix
                       THEN append_suffix(st.new_schemas, derived, derived, 2)
                       ELSE derived
           ref == Ref(SCHEMA_REF_PREFIX \o new_name, Some(ref_title))
       IN [schemas |-> [st.schemas EXCEPT ![name].any_of[i] = ref],
           new_schemas |-> insert(st.new_schemas, new_name, item),
           err |-> IF contains_key(st.new_schemas, new_name)
                   THEN Some(new_name) ELSE None]

\* The body of `for item in any_of` for the item at index i of the AnyOf
\* `name`.  st is [schemas, new_schemas, err]; err is Some(duplicate name)
\* once the function has returned Err.
lift_item(st, name, i, behavior) ==
  LET item == st.schemas[name].any_of[i]
      cs == IF item.kind = "ArrayTuple" THEN sconsts(item.prefix_items) ELSE <<>>
  IN IF item.kind # "ArrayTuple" \/ Len(cs) # 1 THEN st
     ELSE
       LET sconst == cs[1]
           ref_title == name \o sconst
           variant_name == item.x_turbopuffer_variant_name
           derived == IF variant_name # None
                      THEN name \o variant_name[1]
                      ELSE name \o sconst
           new_name == IF behavior = AppendSuffix
                       THEN append_suffix(st.new_schemas, derived, derived, 2)
                       ELSE derived
           ref == Ref(SCHEMA_REF_PREFIX \o new_name, Some(ref_title))
       IN [schemas |-> [st.schemas EXCEPT ![name].any_of[i] = ref],
           new_schemas |-> insert(st.new_schemas, new_name, item),
           err |-> IF contains_key(st.new_schemas, new_name)
                   THEN Some(new_name) ELSE None]

\* `for item in any_of`, from index i on, stopping at the first Err.
RECURSIVE lift_items(_, _, _, _)
lift_items(st, name, i, behavior) ==
  IF st.err # None \/ i > Len(st.schemas[name].any_of) THEN st
  ELSE lift_items(lift_item(st, name, i, behavior), name, i + 1, behavior)

\* The body of `for (name, schema) in &mut *schemas` for one entry.
lift_schema(st, name, behavior) ==
  IF st.schemas[name].kind # "AnyOf" THEN st
  ELSE
    LET retained ==
          IF behavior = Drop
          THEN [st EXCEPT !.schemas[name].any_of = retain(@)]
          ELSE st
    IN lift_items(retained, name, 1, behavior)

\* `for (name, schema) in &mut *schemas` over the names in ascending order.
RECURSIVE lift_schemas(_, _, _)
lift_schemas(st, names, behavior) ==
  IF st.err # None \/ names = <<>> THEN st
  ELSE lift_schemas(lift_schema(st, names[1], behavior), Tail(names), behavior)

\* Mutant of insert_new: a name schemas already holds is overwritten
\* without an error.
RECURSIVE insert_new_overwrite(_, _)
insert_new_overwrite(st, names) ==
  IF st.err # None \/ names = <<>> THEN st
  ELSE insert_new_overwrite(
         [st EXCEPT !.schemas = insert(@, names[1], st.new_schemas[names[1]])],
         Tail(names))

\* `for (name, schema) in new_schemas`: move the lifted schemas into
\* schemas, Err on the first name schemas already holds.
RECURSIVE insert_new(_, _)
insert_new(st, names) ==
  IF st.err # None \/ names = <<>> THEN st
  ELSE insert_new(
         [st EXCEPT !.schemas = insert(@, names[1], st.new_schemas[names[1]]),
                    !.err = IF contains_key(st.schemas, names[1])
                            THEN Some(names[1]) ELSE None],
         Tail(names))

\* extract_any_of_tuples(&mut schemas, conflict_behavior): the map as the
\* function leaves it, the lifted schemas, and Err's duplicate name if any.
extract_any_of_tuples(map, behavior) ==
  LET st0 == [schemas |-> map, new_schemas |-> EmptyMap, err |-> None]
      st1 == lift_schemas(st0, SortedSeq(DOMAIN map), behavior)
  IN insert_new(st1, SortedSeq(DOMAIN st1.new_schemas))

\* Result<(), Box<dyn Error>> of extract_any_of_tuples
lift_result(st) ==
  IF st.err = None THEN [status |-> "ok"]
  ELSE [status |-> "err",
        error |-> "extraction on array tuples from anyOf failed: duplicate schema name",
        name |-> st.err[1]]

---------------------------------------------------------------------------
(* The lift run: a schema map and a conflict behavior, then
   extract_any_of_tuples, and once more on its own output *)

\* The longest any_of list of the schema named Foo.
MaxAlts == 3

Foo == <<"F", "o", "o">>
Fo == <<"F", "o">>
Bar == <<"B", "a", "r">>
Bar2 == <<"B", "a", "r", "2">>
oBar == <<"o", "B", "a", "r">>
FooBar == Foo \o Bar
FooBar2 == Foo \o Bar2

\* A tuple alternative [sconst, string] with one discriminant literal.
Variant(sconst, variant_name, drop) ==
  ArrayTuple(FALSE, <<Const(sconst, None), String(None)>>, variant_name, drop,
             FALSE, None)

\* The alternatives an any_of list is drawn from: tuples with one literal
\* (plain, flagged drop-on-conflict, with a variant-name override, literal
\* last), tuples with no and with two literals, a Ref and a Const.
LiftAlts ==
  {Variant(Bar, None, FALSE),
   Variant(Bar, None, TRUE),
   Variant(Bar2, None, FALSE),
   Variant(Bar2, Some(Bar), FALSE),
   ArrayTuple(FALSE, <<Number(None, None), Const(Bar, None)>>, None, FALSE, FALSE, None),
   ArrayTuple(FALSE, <<String(None)>>, None, FALSE, FALSE, None),
   ArrayTuple(FALSE, <<Const(Bar, None), Const(Bar2, None)>>, None, TRUE, FALSE, None),
   RefTo(FooBar),
   Const(Bar, None)}

SeqsUpTo(S, n) == UNION {[1..k -> S] : k \in 0..n}

MapOf(k1, v1) == [k \in {k1} |-> v1]
MapOf2(k1, v1, k2, v2) == [k \in {k1, k2} |-> IF k = k1 THEN v1 ELSE v2]

\* The schemas beside Foo: none; pre-existing schemas named like a lifted
\* tuple; an AnyOf sorted after Foo and one sorted before Foo whose tuples
\* derive the names Foo's tuples derive.
LiftOthers ==
  {EmptyMap,
   MapOf(FooBar, String(None)),
   MapOf(FooBar2, Boolean(None)),
   MapOf2(FooBar, String(None), FooBar2, Boolean(None)),
   MapOf(FooBar, AnyOf(<<Variant(<<"2">>, None, FALSE)>>)),
   MapOf(Fo, AnyOf(<<Variant(oBar, None, FALSE)>>)),
   MapOf(Fo, AnyOf(<<Variant(oBar, None, TRUE), Variant(oBar, None, FALSE),
                     Variant(oBar, None, FALSE)>>))}

LiftInputs ==
  {[k \in DOMAIN others \cup {Foo} |->
      IF k = Foo THEN AnyOf(alts) ELSE others[k]] :
     alts \in SeqsUpTo(LiftAlts, MaxAlts), others \in LiftOthers}

Init ==
  /\ pc = "start"
  /\ parsed_schemas \in LiftInputs
  /\ schemas = parsed_schemas
  /\ conflict_behavior \in {Drop, AppendSuffix}
  /\ new_schemas = EmptyMap
  /\ result = Null
  /\ yaml = Null
  /\ input_name = Null
  /\ type_prefixes = Null
  /\ spec = Null
  /\ prefix_items = Null
  /\ fields = Null

\* shared::extract_any_of_tuples(&mut schemas, conflict_behavior)
Lift ==
  /\ pc = "start"
  /\ LET st == extract_any_of_tuples(schemas, conflict_behavior)
     IN /\ schemas' = st.schemas
        /\ new_schemas' = st.new_schemas
        /\ result' = lift_result(st)
  /\ pc' = "lifted"
  /\ UNCHANGED <<input_name, yaml, type_prefixes, spec, parsed_schemas, conflict_behavior,
                 prefix_items, fields>>

\* extract_any_of_tuples applied to the map a successful lift returned
LiftAgain ==
  /\ pc = "lifted"
  /\ result.status = "ok"
  /\ LET st == extract_any_of_tuples(schemas, conflict_behavior)
     IN /\ schemas' = st.schemas
        /\ new_schemas' = st.new_schemas
        /\ result' = lift_result(st)
  /\ pc' = "relifted"
  /\ UNCHANGED <<input_name, yaml, type_prefixes, spec, parsed_schemas, conflict_behavior,
                 prefix_items, fields>>

Next == Lift \/ LiftAgain

Spec == Init /\ [][Next]_vars

---------------------------------------------------------------------------
(* Claims about extract_any_of_tuples *)

Lifted == pc = "lifted"
LiftedOk == pc = "lifted" /\ result.status = "ok"

\* The top-level AnyOf schemas of the map handed to the lift.
AnyOfNames == {P \in DOMAIN parsed_schemas : parsed_schemas[P].kind = "AnyOf"}

Flagged(alt) ==
  alt.kind = "ArrayTuple" /\ alt.x_turbopuffer_variant_drop_on_conflict = TRUE

ConstIndexes(alt) ==
  {i \in DOMAIN alt.prefix_items : alt.prefix_items[i].kind = "Const"}

\* a tuple alternative with exactly one Const
OneConstTuple(alt) ==
  alt.kind = "ArrayTuple" /\ Cardinality(ConstIndexes(alt)) = 1

Discriminant(alt) ==
  alt.prefix_items[CHOOSE i \in ConstIndexes(alt) : TRUE].sconst

\* parent name + variantName override, else parent name + literal
ExtractionName(P, alt) ==
  IF alt.x_turbopuffer_variant_name # None
  THEN P \o alt.x_turbopuffer_variant_name[1]
  ELSE P \o Discriminant(alt)

DisplayTitle(P, alt) == P \o Discriminant(alt)

Unflagged(alts) == SelectSeq(alts, LAMBDA alt : ~Flagged(alt))

\* The alternatives of P the lift works on: all of them under AppendSuffix,
\* the unflagged ones under Drop.
KeptAlts(P) ==
  IF conflict_behavior = Drop
  THEN Unflagged(parsed_schemas[P].any_of)
  ELSE parsed_schemas[P].any_of

\* The places <<P, i>> of the tuples the lift extracts.
LiftPositions ==
  UNION {{<<P, i>> : i \in {j \in DOMAIN KeptAlts(P) : OneConstTuple(KeptAlts(P)[j])}} :
           P \in AnyOfNames}

AltAt(q) == KeptAlts(q[1])[q[2]]

\* p is lifted before q: schema names ascending, then list order
Precedes(p, q) == StrLess(p[1], q[1]) \/ (p[1] = q[1] /\ p[2] < q[2])

\* The alternative the lift left at place q, and the name its Ref targets.
PostAt(q) == schemas[q[1]].any_of[q[2]]
IsLiftRef(alt) ==
  alt.kind = "Ref" /\ Len(alt.sref) >= 1 /\ <<alt.sref[1]>> = SCHEMA_REF_PREFIX
AssignedName(q) == Tail(PostAt(q).sref)

NamesBefore(q) == {AssignedName(p) : p \in {r \in LiftPositions : Precedes(r, q)}}

\* N when N is not yet lifted, else N followed by the smallest s >= 2 such
\* that N followed by s is not yet lifted.
ExpectedName(q) ==
  LET N == ExtractionName(q[1], AltAt(q))
      B == NamesBefore(q)
      free(s) == (N \o Decimal(s)) \notin B
  IN IF N \notin B THEN N
     ELSE N \o Decimal(CHOOSE s \in 2..(Cardinality(B) + 2) :
                         free(s) /\ \A t \in 2..(s - 1) : ~free(t))

\* C3: under AppendSuffix the tuples are named in lift order (schema names
\* ascending, alternatives in list order): the derived name N if not yet
\* lifted, else N followed by the smallest free suffix >= 2; the lifted
\* names are pairwise distinct and an error is never a collision between
\* two lifted tuples.
C3_AppendSuffixNames ==
  (Lifted /\ conflict_behavior = AppendSuffix) =>
    /\ Cardinality(DOMAIN new_schemas) = Cardinality(LiftPositions)
    /\ result.status = "err" => result.name \in DOMAIN parsed_schemas
    /\ result.status = "ok" =>
         /\ \A q \in LiftPositions :
              IsLiftRef(PostAt(q)) /\ AssignedName(q) = ExpectedName(q)
         /\ \A p, q \in LiftPositions :
              p # q => AssignedName(p) # AssignedName(q)

\* C3 witness: two tuples both deriving FooBar became FooBar and FooBar2.
C3_Witness ==
  /\ LiftedOk
  /\ conflict_behavior = AppendSuffix
  /\ parsed_schemas =
       MapOf(Foo, AnyOf(<<Variant(Bar, None, FALSE), Variant(Bar, None, FALSE)>>))
  /\ DOMAIN new_schemas = {FooBar, FooBar2}
  /\ AssignedName(<<Foo, 1>>) = FooBar
  /\ AssignedName(<<Foo, 2>>) = FooBar2

C5_PreexistingNameIsFatal ==
  Lifted =>
    /\ DOMAIN new_schemas \cap DOMAIN parsed_schemas # {} =>
         /\ result.status = "err"
         /\ result.error =
              "extraction on array tuples from anyOf failed: duplicate schema name"
    /\ (\E q \in LiftPositions :
          ExtractionName(q[1], AltAt(q)) \in DOMAIN parsed_schemas)
         => result.status = "err"
    /\ result.status = "ok" =>
         DOMAIN schemas = DOMAIN parsed_schemas \cup DOMAIN new_schemas

\* C5 witness: under AppendSuffix a tuple of Foo derives FooBar, which the
\* map already holds, and the lift has failed naming FooBar.
C5_Witness ==
  /\ Lifted
  /\ conflict_behavior = AppendSuffix
  /\ FooBar \in DOMAIN parsed_schemas
  /\ \E q \in LiftPositions : ExtractionName(q[1], AltAt(q)) = FooBar
  /\ result.status = "err"
  /\ result.name = FooBar

\* C6: a second lift of the map a successful lift returned, under the same
\* behavior, succeeds, lifts nothing and leaves the map unchanged.
C6_LiftIdempotent ==
  [][(pc = "lifted" /\ pc' = "relifted") =>
       /\ result'.status = "ok"
       /\ schemas' = schemas
       /\ new_schemas' = EmptyMap]_vars

\* C6 witness: a second lift has run on a map whose first lift extracted a
\* tuple and left another tuple inline.
C6_Witness ==
  /\ pc = "relifted"
  /\ DOMAIN schemas # DOMAIN parsed_schemas
  /\ \E P \in AnyOfNames : \E i \in DOMAIN schemas[P].any_of :
       schemas[P].any_of[i].kind = "ArrayTuple"

\* The statement of C7 about the tuple at index i of the list alts of P:
\* the place holds a Ref titled P+c to a registered name, P+variantName or
\* P+c before any suffix, under which the original tuple is registered.
LiftedInPlace(P, alts, i) ==
  /\ i <= Len(schemas[P].any_of)
  /\ LET post == schemas[P].any_of[i]
         N == ExtractionName(P, alts[i])
     IN /\ IsLiftRef(post)
        /\ post.title = Some(DisplayTitle(P, alts[i]))
        /\ LET registered == Tail(post.sref)
           IN /\ registered \in DOMAIN schemas
              /\ schemas[registered] = alts[i]
              /\ \/ registered = N
                 \/ /\ conflict_behavior = AppendSuffix
                    /\ \E s \in 2..(Cardinality(DOMAIN new_schemas) + 1) :
                         registered = N \o Decimal(s)

\* C7 as stated: every tuple alternative with exactly one Const is lifted in
\* place, at its index in the AnyOf as parsed.
C7_Original_EveryOneConstTuple ==
  LiftedOk =>
    \A P \in AnyOfNames : \A i \in DOMAIN parsed_schemas[P].any_of :
      OneConstTuple(parsed_schemas[P].any_of[i]) =>
        LiftedInPlace(P, parsed_schemas[P].any_of, i)

\* C7 amended: every tuple alternative with exactly one Const that the Drop
\* behavior does not remove is lifted in place, at its index among the
\* alternatives that remain.
C7_KeptOneConstTupleLifted ==
  LiftedOk =>
    \A P \in AnyOfNames : \A i \in DOMAIN KeptAlts(P) :
      OneConstTuple(KeptAlts(P)[i]) => LiftedInPlace(P, KeptAlts(P), i)

\* C7 witness: a tuple with the literal Bar2 and the variant name Bar was
\* lifted from Foo as FooBar, its Ref titled FooBar2.
C7_Witness ==
  /\ LiftedOk
  /\ \E q \in LiftPositions :
       /\ AltAt(q).x_turbopuffer_variant_name # None
       /\ AssignedName(q) = FooBar
       /\ PostAt(q).title = Some(FooBar2)
       /\ schemas[FooBar] = AltAt(q)

---------------------------------------------------------------------------
(* build_tuple_fields *)

\* enum TupleField
Normal(name, schema) == [field |-> "Normal", name |-> name, schema |-> schema]
ConstField(sconst) == [field |-> "Const", sconst |-> sconst]
StartIndent == [field |-> "StartIndent"]
EndIndent == [field |-> "EndIndent"]

is_flattened_tuple(item) ==
  item.kind = "ArrayTuple" /\ item.x_turbopuffer_flatten

\* The name of a Normal field: the item's title, else format!("f{i}").
field_name(item, i) ==
  IF title(item) # None THEN title(item)[1] ELSE <<"f">> \o Decimal(i)

\* build_tuple_fields_inner that numbers the items of a flattened tuple
\* from 0 again and leaves the counter of the enclosing list alone
RECURSIVE build_tuple_fields_inner_own_counter(_, _, _)
build_tuple_fields_inner_own_counter(out, i, items) ==
  IF items = <<>> THEN [out |-> out, i |-> i]
  ELSE
    LET item == items[1]
        done ==
          IF item.kind = "Const"
          THEN [out |-> Append(out, ConstField(item.sconst)), i |-> i]
          ELSE IF is_flattened_tuple(item)
          THEN LET inner == build_tuple_fields_inner_own_counter(
                              Append(out, StartIndent), 0, item.prefix_items)
               IN [out |-> Append(inner.out, EndIndent), i |-> i]
          ELSE [out |-> Append(out, Normal(field_name(item, i), item)), i |-> i]
    IN build_tuple_fields_inner_own_counter(done.out, done.i + 1, Tail(items))

\* build_tuple_fields_inner without the closing marker of a flattened tuple
RECURSIVE build_tuple_fields_inner_no_end(_, _, _)
build_tuple_fields_inner_no_end(out, i, items) ==
  IF items = <<>> THEN [out |-> out, i |-> i]
  ELSE
    LET item == items[1]
        done ==
          IF item.kind = "Const"
          THEN [out |-> Append(out, ConstField(item.sconst)), i |-> i]
          ELSE IF is_flattened_tuple(item)
          THEN build_tuple_fields_inner_no_end(
                 Append(out, StartIndent), i, item.prefix_items)
          ELSE [out |-> Append(out, Normal(field_name(item, i), item)), i |-> i]
    IN build_tuple_fields_inner_no_end(done.out, done.i + 1, Tail(items))

\* build_tuple_fields_inner(out, i, prefix_items): out and i as the call
\* leaves them.
RECURSIVE build_tuple_fields_inner(_, _, _)
build_tuple_fields_inner(out, i, items) ==
  IF items = <<>> THEN [out |-> out, i |-> i]
  ELSE
    LET item == items[1]
        done ==
          IF item.kind = "Const"
          THEN [out |-> Append(out, ConstField(item.sconst)), i |-> i]
          ELSE IF is_flattened_tuple(item)
          THEN LET inner == build_tuple_fields_inner(
                              Append(out, StartIndent), i, item.prefix_items)
               IN [out |-> Append(inner.out, EndIndent), i |-> inner.i]
          ELSE [out |-> Append(out, Normal(field_name(item, i), item)), i |-> i]
    IN build_tuple_fields_inner(done.out, done.i + 1, Tail(items))

\* build_tuple_fields(prefix_items)
build_tuple_fields(items) == build_tuple_fields_inner(<<>>, 0, items).out

---------------------------------------------------------------------------
(* Name mangling used by the renderer *)

\* char::to_uppercase, as the characters it yields
to_uppercase(c) ==
  IF c = "U+00DF" THEN <<"S", "S">>
  ELSE IF c = "U+01C5" THEN <<"U+01C4">>
  ELSE IF \E i \in DOMAIN Alphabet : Alphabet[i] = c
  THEN LET i == CharCode(c)
       IN IF i >= CharCode("a") /\ i <= CharCode("z")
          THEN <<Alphabet[i - (CharCode("a") - CharCode("A"))]>>
          ELSE <<c>>
  ELSE <<c>>

\* str::replace("$", "")
remove_dollar(input) == SelectSeq(input, LAMBDA c : c # "$")

\* The loop of snake_to_camel_case over the remaining characters.
RECURSIVE snake_to_camel_chars(_)
snake_to_camel_chars(chars) ==
  IF chars = <<>> THEN <<>>
  ELSE IF chars[1] = "_"
  THEN IF Len(chars) >= 2
       THEN to_uppercase(chars[2]) \o snake_to_camel_chars(SubSeq(chars, 3, Len(chars)))
       ELSE <<>>
  ELSE <<chars[1]>> \o snake_to_camel_chars(Tail(chars))

\* snake_to_camel_case that drops the underscores and keeps the case
snake_to_camel_case_keep_case(input) ==
  SelectSeq(remove_dollar(input), LAMBDA c : c # "_")

\* shared::snake_to_camel_case
snake_to_camel_case(input) == snake_to_camel_chars(remove_dollar(input))

\* char::is_uppercase: the ASCII capitals and, beyond ASCII, U+0130 (capital
\* I with dot above) and U+01C4 (capital DZ with caron). The titlecase
\* U+01C5 and U+00DF (sharp s) are not uppercase.
is_uppercase(c) ==
  \/ c \in {"U+0130", "U+01C4"}
  \/ /\ \E i \in DOMAIN Alphabet : Alphabet[i] = c
     /\ CharCode(c) >= CharCode("A")
     /\ CharCode(c) <= CharCode("Z")

\* char::to_lowercase, as the characters it yields: U+0130 yields two, and
\* the titlecase U+01C5, which is not uppercase, yields U+01C6.
to_lowercase(c) ==
  IF c = "U+0130" THEN <<"i", "U+0307">>
  ELSE IF c \in {"U+01C4", "U+01C5"} THEN <<"U+01C6">>
  ELSE IF is_uppercase(c)
  THEN <<Alphabet[CharCode(c) + (CharCode("a") - CharCode("A"))]>>
  ELSE <<c>>

\* lower_camel_case that lowercases the first character only
lower_camel_case_first_only(input) ==
  IF input = <<>> THEN <<>> ELSE to_lowercase(input[1]) \o Tail(input)

\* shared::lower_camel_case
RECURSIVE lower_camel_case(_)
lower_camel_case(input) ==
  IF input = <<>> THEN <<>>
  ELSE to_lowercase(input[1])
         \o (IF ~is_uppercase(input[1]) THEN Tail(input)
             ELSE lower_camel_case(Tail(input)))

---------------------------------------------------------------------------
(* go::render_schema.  The text written to the CodegenBuf is kept as the
   sequence of its pieces: [tok |-> <template>, ...<the names it embeds>]. *)

Tok(t) == [tok |-> t]
TokName(t, name) == [tok |-> t, name |-> name]

Ok(out) == [status |-> "ok", error |-> "", out |-> out]
Err(error) == [status |-> "err", error |-> error, out |-> <<>>]
\* an abort without an error value: a panic, or the stack exhausted
Abort(how) == [status |-> how, error |-> "", out |-> <<>>]

Range(seq) == {seq[i] : i \in DOMAIN seq}

all_kind(any_of, kind) == \A i \in DOMAIN any_of : any_of[i].kind = kind

\* codegen::strip_schema_ref_prefix: Some(name), or None for Err
strip_schema_ref_prefix(sref) == strip_prefix(sref)

\* The constant name of one alternative of a const enum.
\* sconst_name without the upper-casing of the first character
sconst_name_no_upper(name, item) ==
  IF item.title # None THEN item.title[1] ELSE name \o item.sconst

sconst_name(name, item) ==
  IF item.title # None THEN item.title[1]
  ELSE IF item.sconst = <<>> THEN name
  ELSE name \o to_uppercase(item.sconst[1]) \o Tail(item.sconst)

\* go::render_any_of_const_enum
render_any_of_const_enum(name, any_of) ==
  IF name = None THEN Err("const enum in unsupported position")
  ELSE Ok(<<Tok("string"), Tok("eol"), Tok("const (")>>
          \o [i \in 1..Len(any_of) |->
                [tok |-> "enum member",
                 name |-> sconst_name(name[1], any_of[i]),
                 type |-> name[1],
                 value |-> any_of[i].sconst]]
          \o <<Tok(")")>>)

is_all_ref_any_of(schema) ==
  schema.kind = "AnyOf" /\ all_kind(schema.any_of, "Ref")

\* The inner fn render of render_any_of_refs, from item i of any_of on.
\* stack holds the names of the all-Ref AnyOfs whose expansion is in
\* progress: meeting one of them again is unbounded recursion.
RECURSIVE render_refs(_, _, _, _, _)
render_refs(map, fn_name, any_of, i, stack) ==
  IF i > Len(any_of) THEN Ok(<<>>)
  ELSE
    LET sref == strip_schema_ref_prefix(any_of[i].sref)
    IN IF sref = None THEN Err("unsupported reference")
       ELSE IF ~contains_key(map, sref[1]) THEN Abort("panic")
       ELSE
         LET here ==
               IF is_all_ref_any_of(map[sref[1]])
               THEN IF sref[1] \in stack THEN Abort("stack overflow")
                    ELSE render_refs(map, fn_name, map[sref[1]].any_of, 1,
                                     stack \cup {sref[1]})
               ELSE Ok(<<[tok |-> "marker", type |-> sref[1], fn |-> fn_name]>>)
         IN IF here.status # "ok" THEN here
            ELSE LET rest == render_refs(map, fn_name, any_of, i + 1, stack)
                 IN IF rest.status # "ok" THEN rest
                    ELSE Ok(here.out \o rest.out)

\* go::render_any_of_refs
render_any_of_refs(map, name, any_of) ==
  IF name = None THEN Err("anyOf with refs in unsupported position")
  ELSE
    LET fn_name == <<"s", "e", "a", "l", "e", "d", "_">> \o name[1]
        impls == render_refs(map, fn_name, any_of, 1, {})
    IN IF impls.status # "ok" THEN impls
       ELSE Ok(<<TokName("interface", fn_name)>> \o impls.out)

\* The serializer's array literal: one piece per TupleField (go.rs:198-215).
marshal_piece(field) ==
  CASE field.field = "Const" -> [tok |-> "lit", value |-> field.sconst]
    [] field.field = "StartIndent" -> Tok("[]any{")
    [] field.field = "EndIndent" -> Tok("},")
    [] OTHER -> TokName("v.", field.name)

\* marshal_pieces over the fields that are not Const
marshal_pieces_no_consts(tuple_fields) ==
  LET fs == SelectSeq(tuple_fields, LAMBDA f : f.field # "Const")
  IN [i \in 1..Len(fs) |-> marshal_piece(fs[i])]

marshal_pieces(tuple_fields) ==
  [i \in 1..Len(tuple_fields) |-> marshal_piece(tuple_fields[i])]

RECURSIVE render_schema(_, _, _)

\* Boolean: the target's native boolean type.
render_boolean == Ok(<<Tok("bool")>>)

\* The struct members / constructor parameters of a tuple: for each Normal
\* field `name type` followed by sep.
RECURSIVE render_members(_, _, _, _)
render_members(map, fs, tok, sep) ==
  IF fs = <<>> THEN Ok(<<>>)
  ELSE IF fs[1].field # "Normal" THEN render_members(map, Tail(fs), tok, sep)
  ELSE
    LET ty == render_schema(map, None, fs[1].schema)
    IN IF ty.status # "ok" THEN ty
       ELSE LET rest == render_members(map, Tail(fs), tok, sep)
            IN IF rest.status # "ok" THEN rest
               ELSE Ok(<<TokName(tok, fs[1].name)>> \o ty.out \o <<Tok(sep)>>
                       \o rest.out)

\* The ArrayTuple arm with additional_items false.
render_tuple(map, name, schema) ==
  IF name = None THEN Err("tuple-type arrays in unsupported position")
  ELSE
    LET tuple_fields == build_tuple_fields(schema.prefix_items)
        fields_no_consts ==
          SelectSeq(tuple_fields, LAMBDA f : f.field # "Const")
        normal == SelectSeq(fields_no_consts, LAMBDA f : f.field = "Normal")
        members == render_members(map, fields_no_consts, "field", "eol")
        params == render_members(map, fields_no_consts, "param", ",")
    IN IF members.status # "ok" THEN members
       ELSE IF params.status # "ok" THEN params
       ELSE Ok(<<Tok("struct {")>> \o members.out \o <<Tok("}")>>
               \o <<TokName("func New", name[1])>> \o params.out
               \o <<TokName(") T {", name[1]), TokName("return T{", name[1])>>
               \o [i \in 1..Len(normal) |-> TokName("init", normal[i].name)]
               \o <<Tok("}"), Tok("}")>>
               \o <<TokName("func MarshalJSON", name[1]),
                    Tok("return shimjson.Marshal([]any{")>>
               \o marshal_pieces(tuple_fields)
               \o <<Tok("})"), Tok("}")>>)

\* The Object arm.
render_object(map, name, schema) ==
  IF name = None THEN Err("object schema in unsupported position")
  ELSE IF Cardinality(DOMAIN schema.properties) # 1 \/ Len(schema.required) # 1
  THEN Err("object schemas only supported with a required property")
  ELSE
    LET prop_name == CHOOSE q \in DOMAIN schema.properties : TRUE
        prop_name_munged == snake_to_camel_case(remove_dollar(prop_name))
        ty == render_schema(map, None, schema.properties[prop_name])
    IN IF prop_name \notin Range(schema.required)
       THEN Err("object schemas only supported with a single required property")
       ELSE IF ty.status # "ok" THEN ty
       ELSE Ok(<<Tok("struct {"), TokName("field", prop_name_munged)>> \o ty.out
               \o <<Tok("eol"), Tok("}")>>
               \o <<TokName("func New", name[1]), TokName("param", prop_name_munged)>>
               \o ty.out
               \o <<Tok(","), TokName(") T {", name[1]), TokName("return T{", name[1]),
                    [tok |-> "init:", name |-> prop_name_munged],
                    Tok("}"), Tok("}")>>
               \o <<TokName("func MarshalJSON", name[1]),
                    Tok("return shimjson.Marshal(map[string]any{"),
                    [tok |-> "key:", key |-> prop_name, name |-> prop_name_munged],
                    Tok("})"), Tok("}")>>)

\* go::render_schema(schemas, buf, name, schema): the Result, and the text
\* written on Ok.
render_schema(map, name, schema) ==
  CASE schema.kind = "AnyOf" ->
         IF all_kind(schema.any_of, "Const")
         THEN render_any_of_const_enum(name, schema.any_of)
         ELSE IF all_kind(schema.any_of, "Ref")
         THEN render_any_of_refs(map, name, schema.any_of)
         ELSE Err("unsupported anyOf")
    [] schema.kind = "Object" -> render_object(map, name, schema)
    [] schema.kind = "ArrayList" ->
         LET ty == render_schema(map, None, schema.items)
         IN IF ty.status # "ok" THEN ty ELSE Ok(<<Tok("[]")>> \o ty.out)
    [] schema.kind = "ArrayTuple" ->
         IF schema.additional_items
         THEN Err("tuple-type arrays with items: true unsupported")
         ELSE render_tuple(map, name, schema)
    [] schema.kind = "String" -> Ok(<<Tok("string")>>)
    [] schema.kind = "Number" ->
         IF schema.x_turbopuffer_width = Some(32) THEN Ok(<<Tok("float32")>>)
         ELSE IF schema.x_turbopuffer_width \in {None, Some(64)}
         THEN Ok(<<Tok("float64")>>)
         ELSE Err("unsupported number width")
    [] schema.kind = "Boolean" -> render_boolean
    [] schema.kind = "Const" -> Err("const in unsupported position")
    [] schema.kind = "Ref" ->
         LET name_ == strip_schema_ref_prefix(schema.sref)
         IN IF name_ = None THEN Err("unsupported reference")
            ELSE Ok(<<TokName("type name", name_[1])>>)
    [] OTHER -> Ok(<<Tok("any")>>)

---------------------------------------------------------------------------
(* The tuple run: a top-level ArrayTuple, then build_tuple_fields on its
   prefix items, then render_schema on it *)

\* The longest prefix_items list of the top-level tuple.
MaxItems == 3

NameT == <<"T">>

Flat(items) == ArrayTuple(FALSE, items, None, FALSE, TRUE, None)

TupleLeaves ==
  {Const(<<"a">>, None), Const(<<"b">>, None), String(None),
   String(Some(<<"x">>))}

\* The items a prefix_items list is drawn from: literals, scalars with and
\* without a title, flattened tuples (empty, with literals, nested in one
\* another), a tuple that is not flattened, a list.
TupleItems ==
  TupleLeaves \cup
  {Flat(<<>>),
   Flat(<<Const(<<"a">>, None)>>),
   Flat(<<String(None)>>),
   Flat(<<Const(<<"a">>, None), String(None)>>),
   Flat(<<String(None), String(Some(<<"x">>))>>),
   Flat(<<String(None), Flat(<<Const(<<"b">>, None), Number(None, None)>>)>>),
   ArrayTuple(FALSE, <<String(None)>>, None, FALSE, FALSE, None),
   ArrayList(Number(None, Some(32)), None)}

TupleInit ==
  /\ pc = "start"
  /\ prefix_items \in SeqsUpTo(TupleItems, MaxItems)
  /\ \E additional_items \in BOOLEAN :
       parsed_schemas =
         MapOf(NameT, ArrayTuple(additional_items, prefix_items, None, FALSE,
                                 FALSE, None))
  /\ schemas = parsed_schemas
  /\ fields = Null
  /\ result = Null
  /\ yaml = Null
  /\ input_name = Null
  /\ type_prefixes = Null
  /\ spec = Null
  /\ conflict_behavior = Null
  /\ new_schemas = Null

\* shared::build_tuple_fields(prefix_items)
BuildTupleFields ==
  /\ pc = "start"
  /\ fields' = build_tuple_fields(prefix_items)
  /\ pc' = "built"
  /\ UNCHANGED <<input_name, yaml, type_prefixes, spec, parsed_schemas, conflict_behavior,
                 schemas, new_schemas, result, prefix_items>>

\* render_schema(&schemas, &mut buf, Some(name), &schema) for the tuple
RenderTuple ==
  /\ pc = "built"
  /\ result' = render_schema(schemas, Some(NameT), schemas[NameT])
  /\ pc' = "rendered"
  /\ UNCHANGED <<input_name, yaml, type_prefixes, spec, parsed_schemas, conflict_behavior,
                 schemas, new_schemas, prefix_items, fields>>

TupleNext == BuildTupleFields \/ RenderTuple

SpecTuple == TupleInit /\ [][TupleNext]_vars

---------------------------------------------------------------------------
(* Claims about build_tuple_fields and the tuple serializer *)

Built == pc \in {"built", "rendered"}

CountFields(kind) == Cardinality({i \in DOMAIN fields : fields[i].field = kind})

\* StartIndents minus EndIndents among fields[lo..hi]
Depth(lo, hi) ==
  Cardinality({i \in lo..hi : fields[i].field = "StartIndent"})
    - Cardinality({i \in lo..hi : fields[i].field = "EndIndent"})

\* The index of the EndIndent closing the StartIndent at lo, 0 if none.
MatchingEnd(lo, hi) ==
  LET ends == {e \in (lo + 1)..hi :
                 fields[e].field = "EndIndent" /\ Depth(lo, e) = 0}
  IN IF ends = {} THEN 0
     ELSE CHOOSE e \in ends : \A d \in ends : e <= d

\* fields[lo..hi] correspond one to one, in order, to items: a Const field
\* per Const, a Normal field holding the item per other item, and per
\* flattened tuple a StartIndent, the fields of its items, an EndIndent.
RECURSIVE Corresponds(_, _, _)
Corresponds(lo, hi, items) ==
  IF items = <<>> THEN lo = hi + 1
  ELSE IF lo > hi THEN FALSE
  ELSE IF is_flattened_tuple(items[1])
  THEN /\ fields[lo] = StartIndent
       /\ LET e == MatchingEnd(lo, hi)
          IN /\ e # 0
             /\ Corresponds(lo + 1, e - 1, items[1].prefix_items)
             /\ Corresponds(e + 1, hi, Tail(items))
  ELSE IF items[1].kind = "Const"
  THEN /\ fields[lo] = ConstField(items[1].sconst)
       /\ Corresponds(lo + 1, hi, Tail(items))
  ELSE /\ fields[lo].field = "Normal"
       /\ fields[lo].schema = items[1]
       /\ Corresponds(lo + 1, hi, Tail(items))

\* The flattened tuples among items and, recursively, inside them.
RECURSIVE FlattenCount(_)
FlattenCount(items) ==
  IF items = <<>> THEN 0
  ELSE (IF is_flattened_tuple(items[1])
        THEN 1 + FlattenCount(items[1].prefix_items) ELSE 0)
       + FlattenCount(Tail(items))

\* C8: without a flattened item, Normal plus Const fields number
\* Len(prefix_items) and there is no marker; in general the markers are
\* balanced and properly nested, one pair per flattened tuple, and the
\* fields between a pair correspond in order to that tuple's items.
C8_LinearizePreservesShape ==
  Built =>
    /\ (\A i \in DOMAIN prefix_items : ~is_flattened_tuple(prefix_items[i])) =>
         /\ CountFields("Normal") + CountFields("Const") = Len(prefix_items)
         /\ CountFields("StartIndent") = 0
         /\ CountFields("EndIndent") = 0
    /\ \A i \in DOMAIN fields : Depth(1, i) >= 0
    /\ Depth(1, Len(fields)) = 0
    /\ CountFields("StartIndent") = FlattenCount(prefix_items)
    /\ Corresponds(1, Len(fields), prefix_items)

\* C8 witness: a list with a flattened tuple nested in a flattened tuple
\* beside other items has been linearized.
C8_Witness ==
  /\ pc = "built"
  /\ Len(prefix_items) >= 2
  /\ \E i \in DOMAIN prefix_items :
       /\ is_flattened_tuple(prefix_items[i])
       /\ \E j \in DOMAIN prefix_items[i].prefix_items :
            is_flattened_tuple(prefix_items[i].prefix_items[j])
  /\ CountFields("StartIndent") >= 2

Rendered == pc = "rendered" /\ result.status = "ok"

IndexOf(out, tok, from) ==
  LET hits == {i \in from..Len(out) : out[i] = tok}
  IN IF hits = {} THEN 0 ELSE CHOOSE i \in hits : \A j \in hits : i <= j

\* The pieces of the serializer's array literal: what the text holds between
\* `shimjson.Marshal([]any{` and the closing `})`.
MarshalSection(out) ==
  LET start == IndexOf(out, Tok("return shimjson.Marshal([]any{"), 1)
      stop == IndexOf(out, Tok("})"), start + 1)
  IN SubSeq(out, start + 1, stop - 1)

NamesOf(out, tok) ==
  LET toks == SelectSeq(out, LAMBDA t : t.tok = tok)
  IN [i \in 1..Len(toks) |-> toks[i].name]

\* The index of the `},` closing the `[]any{` at lo, hi + 1 if none.
ClosingPiece(toks, lo, hi) ==
  LET depth(e) ==
        Cardinality({i \in lo..e : toks[i] = Tok("[]any{")})
          - Cardinality({i \in lo..e : toks[i] = Tok("},")})
      ends == {e \in (lo + 1)..hi : toks[e] = Tok("},") /\ depth(e) = 0}
  IN IF ends = {} THEN hi + 1
     ELSE CHOOSE e \in ends : \A d \in ends : e <= d

\* The array the pieces toks[lo..hi] evaluate to, the k-th `v.` piece
\* evaluating to the k-th constructor argument.
RECURSIVE Evaluate(_, _, _)
Evaluate(toks, lo, hi) ==
  IF lo > hi THEN <<>>
  ELSE IF toks[lo] = Tok("[]any{")
  THEN LET e == ClosingPiece(toks, lo, hi)
       IN <<[e |-> "array", v |-> Evaluate(toks, lo + 1, e - 1)]>>
            \o Evaluate(toks, e + 1, hi)
  ELSE IF toks[lo].tok = "lit"
  THEN <<[e |-> "literal", v |-> toks[lo].value]>> \o Evaluate(toks, lo + 1, hi)
  ELSE IF toks[lo].tok = "v."
  THEN <<[e |-> "argument",
          v |-> Cardinality({i \in 1..lo : toks[i].tok = "v."})]>>
         \o Evaluate(toks, lo + 1, hi)
  ELSE <<[e |-> "stray", v |-> toks[lo].tok]>> \o Evaluate(toks, lo + 1, hi)

\* The wire shape of a tuple: per item, in order, the literal of a Const,
\* the nested array of a flattened tuple, the next argument otherwise.
\* k is the number of arguments used so far.
RECURSIVE WireShape(_, _)
WireShape(items, k) ==
  IF items = <<>> THEN [array |-> <<>>, k |-> k]
  ELSE
    LET head ==
          IF items[1].kind = "Const"
          THEN [elem |-> [e |-> "literal", v |-> items[1].sconst], k |-> k]
          ELSE IF is_flattened_tuple(items[1])
          THEN LET inner == WireShape(items[1].prefix_items, k)
               IN [elem |-> [e |-> "array", v |-> inner.array], k |-> inner.k]
          ELSE [elem |-> [e |-> "argument", v |-> k + 1], k |-> k + 1]
        rest == WireShape(Tail(items), head.k)
    IN [array |-> <<head.elem>> \o rest.array, k |-> rest.k]

\* C9: the array the rendered serializer of a tuple emits has
\* Len(prefix_items) top-level elements, in the original order: each Const's
\* literal, the i-th constructor argument for the i-th item that is neither
\* a Const nor a flattened tuple, and one nested array per flattened tuple
\* holding that tuple's elements.
C9_SerializerRoundTrip ==
  Rendered =>
    LET toks == MarshalSection(result.out)
        array == Evaluate(toks, 1, Len(toks))
    IN /\ ~schemas[NameT].additional_items
       /\ NamesOf(toks, "v.") = NamesOf(result.out, "param")
       /\ Len(array) = Len(prefix_items)
       /\ array = WireShape(prefix_items, 0).array

\* C9 witness: the serializer of a tuple with a literal that is not first,
\* a flattened tuple and two or more arguments has been rendered.
C9_Witness ==
  /\ Rendered
  /\ \E i \in DOMAIN prefix_items : i > 1 /\ prefix_items[i].kind = "Const"
  /\ \E i \in DOMAIN prefix_items :
       is_flattened_tuple(prefix_items[i]) /\ prefix_items[i].prefix_items # <<>>
  /\ Len(NamesOf(result.out, "param")) >= 2

---------------------------------------------------------------------------
(* go::render: the lift under Drop, then every schema in key order *)

RECURSIVE render_all(_, _, _)
render_all(map, names, out) ==
  IF names = <<>> THEN Ok(out)
  ELSE LET rendered == render_schema(map, Some(names[1]), map[names[1]])
       IN IF rendered.status # "ok" THEN rendered
          ELSE render_all(map, Tail(names),
                          out \o <<TokName("type", names[1])>> \o rendered.out
                              \o <<Tok("eol")>>)

render(map) ==
  LET st == extract_any_of_tuples(map, Drop)
  IN IF st.err # None THEN lift_result(st)
     ELSE render_all(st.schemas, SortedSeq(DOMAIN st.schemas),
                     <<Tok("header")>>)

---------------------------------------------------------------------------
(* The render run: a schema map holding an AnyOf named Mode, then
   go::render on it *)

\* The longest any_of list of Mode.
MaxConsts == 3

Mode == <<"M", "o", "d", "e">>

\* The alternatives of Mode: literals that start with a lower-case letter,
\* an upper-case letter, a digit; a literal of two characters and the empty
\* literal; a literal with a title; a Ref and a tuple, which make the any_of
\* something other than all Const.
EnumAlts ==
  {Const(<<"a">>, None), Const(<<"b">>, None), Const(<<"c">>, None),
   Const(<<"a", "b">>, None), Const(<<"A">>, None), Const(<<"1">>, None),
   Const(<<>>, None), Const(<<"a">>, Some(<<"A", "a">>)),
   RefTo(NameU), Variant(Bar, None, TRUE)}

\* The schemas beside Mode: none, a scalar, another enumeration, a schema
\* render_schema rejects.
RenderOthers ==
  {EmptyMap,
   MapOf(NameU, String(None)),
   MapOf(NameU, AnyOf(<<Const(<<"a">>, None)>>)),
   MapOf(NameU, Const(<<"a">>, None))}

RenderInputs ==
  {[k \in DOMAIN others \cup {Mode} |->
      IF k = Mode THEN AnyOf(alts) ELSE others[k]] :
     alts \in SeqsUpTo(EnumAlts, MaxConsts), others \in RenderOthers}

RenderInit ==
  /\ pc = "start"
  /\ parsed_schemas \in RenderInputs
  /\ schemas = parsed_schemas
  /\ conflict_behavior = Drop
  /\ result = Null
  /\ new_schemas = Null
  /\ yaml = Null
  /\ input_name = Null
  /\ type_prefixes = Null
  /\ spec = Null
  /\ prefix_items = Null
  /\ fields = Null

\* go::render(schemas)
Render ==
  /\ pc = "start"
  /\ schemas' = extract_any_of_tuples(schemas, Drop).schemas
  /\ result' = render(schemas)
  /\ pc' = "rendered"
  /\ UNCHANGED <<input_name, yaml, type_prefixes, spec, parsed_schemas, conflict_behavior,
                 new_schemas, prefix_items, fields>>

RenderNext == Render

SpecRender == RenderInit /\ [][RenderNext]_vars

---------------------------------------------------------------------------
(* Claims about the rendering of an all-Const AnyOf *)

LowerCase ==
  <<"a", "b", "c", "d", "e", "f", "g", "h", "i", "j", "k", "l", "m",
    "n", "o", "p", "q", "r", "s", "t", "u", "v", "w", "x", "y", "z">>

UpperCase ==
  <<"A", "B", "C", "D", "E", "F", "G", "H", "I", "J", "K", "L", "M",
    "N", "O", "P", "Q", "R", "S", "T", "U", "V", "W", "X", "Y", "Z">>

UpperCased(c) ==
  IF \E i \in DOMAIN LowerCase : LowerCase[i] = c
  THEN UpperCase[CHOOSE i \in DOMAIN LowerCase : LowerCase[i] = c]
  ELSE c

\* The member name of alternative alt of the enumeration named P
MemberName(P, alt) ==
  IF alt.title # None THEN alt.title[1]
  ELSE IF alt.sconst = <<>> THEN P
  ELSE P \o <<UpperCased(Head(alt.sconst))>> \o Tail(alt.sconst)

\* The top-level AnyOf schemas of the input whose alternatives are all Const
ConstEnums ==
  {P \in DOMAIN parsed_schemas :
     /\ parsed_schemas[P].kind = "AnyOf"
     /\ \A i \in DOMAIN parsed_schemas[P].any_of :
          parsed_schemas[P].any_of[i].kind = "Const"}

\* The members the rendered text declares with type P
Members(P) ==
  SelectSeq(result.out, LAMBDA t : t.tok = "enum member" /\ t.type = P)

\* What follows `type P ` in the rendered text
TypeBody(P) ==
  LET at == IndexOf(result.out, TokName("type", P), 1)
  IN IF at = 0 \/ at = Len(result.out) THEN Tok("none")
     ELSE result.out[at + 1]

\* C10: a rendered top-level all-Const AnyOf named P is a string type with
\* one member per alternative, in alternative order, bound to the
\* alternative's literal and named by its title, else by P followed by the
\* literal with its first character upper-cased.
C10_ConstEnumMembers ==
  (pc = "rendered" /\ result.status = "ok") =>
    \A P \in ConstEnums :
      LET alts == parsed_schemas[P].any_of
      IN /\ TypeBody(P) = Tok("string")
         /\ Len(Members(P)) = Len(alts)
         /\ \A i \in DOMAIN alts :
              /\ Members(P)[i].value = alts[i].sconst
              /\ Members(P)[i].name = MemberName(P, alts[i])

\* C10 witness: Mode over "a", "b", "c" has been rendered with the members
\* ModeA, ModeB, ModeC.
C10_Witness ==
  /\ pc = "rendered"
  /\ result.status = "ok"
  /\ parsed_schemas[Mode].any_of =
       <<Const(<<"a">>, None), Const(<<"b">>, None), Const(<<"c">>, None)>>
  /\ [i \in 1..Len(Members(Mode)) |-> Members(Mode)[i].name] =
       <<Mode \o <<"A">>, Mode \o <<"B">>, Mode \o <<"C">>>>

---------------------------------------------------------------------------
(* The name run: a name, then lower_camel_case or snake_to_camel_case on it *)

\* The longest name.
MaxName == 4

\* The characters a name is drawn from: ASCII capitals and small letters,
\* the underscore, the `$` sigil, and beyond ASCII a capital whose lowercase
\* is two characters (U+0130), a titlecase letter (U+01C5) and a small letter
\* whose uppercase is two characters (U+00DF).
NameChars == {"A", "B", "a", "_", "$", "U+0130", "U+01C5", "U+00DF"}

NameInit ==
  /\ pc = "start"
  /\ input_name \in SeqsUpTo(NameChars, MaxName)
  /\ result = Null
  /\ yaml = Null
  /\ type_prefixes = Null
  /\ spec = Null
  /\ parsed_schemas = Null
  /\ conflict_behavior = Null
  /\ schemas = Null
  /\ new_schemas = Null
  /\ prefix_items = Null
  /\ fields = Null

\* shared::lower_camel_case(input)
LowerCamelCase ==
  /\ pc = "start"
  /\ result' = lower_camel_case(input_name)
  /\ pc' = "lower_camel_case"
  /\ UNCHANGED <<input_name, yaml, type_prefixes, spec, parsed_schemas,
                 conflict_behavior, schemas, new_schemas, prefix_items, fields>>

\* shared::snake_to_camel_case(input)
SnakeToCamelCase ==
  /\ pc = "start"
  /\ result' = snake_to_camel_case(input_name)
  /\ pc' = "snake_to_camel_case"
  /\ UNCHANGED <<input_name, yaml, type_prefixes, spec, parsed_schemas,
                 conflict_behavior, schemas, new_schemas, prefix_items, fields>>

NameNext == LowerCamelCase \/ SnakeToCamelCase

SpecName == NameInit /\ [][NameNext]_vars

---------------------------------------------------------------------------
(* Claims about the name mangling *)

IsUpper(c) ==
  \/ \E i \in DOMAIN UpperCase : UpperCase[i] = c
  \/ c \in {"U+0130", "U+01C4"}

\* The lowercase mapping of a character
Lowered(c) ==
  IF \E i \in DOMAIN UpperCase : UpperCase[i] = c
  THEN <<LowerCase[CHOOSE i \in DOMAIN UpperCase : UpperCase[i] = c]>>
  ELSE IF c = "U+0130" THEN <<"i", "U+0307">>
  ELSE IF c \in {"U+01C4", "U+01C5"} THEN <<"U+01C6">>
  ELSE <<c>>

RECURSIVE LoweredAll(_)
LoweredAll(s) ==
  IF s = <<>> THEN <<>> ELSE Lowered(s[1]) \o LoweredAll(Tail(s))

\* The length of the maximal leading run of uppercase characters of s
LeadingRun(s) ==
  Cardinality({k \in DOMAIN s : \A i \in 1..k : IsUpper(s[i])})

\* C11 as stated: the output has the length of the input, the characters
\* of the leading uppercase run are lowercased, and the character that ends
\* the run and every character after it are unchanged.
C11_Original_OnlyTheRunChanges ==
  pc = "lower_camel_case" =>
    /\ Len(result) = Len(input_name)
    /\ \A i \in DOMAIN input_name :
         result[i] = IF i <= LeadingRun(input_name)
                     THEN Head(Lowered(input_name[i]))
                     ELSE input_name[i]

\* C11, amended: lower_camel_case replaces the characters of the maximal
\* leading run of uppercase characters, and the character that ends the
\* run, by their lowercase mappings and keeps every later character, in
\* order; when each of the replaced characters has a one-character mapping
\* and the one that ends the run is its own mapping, the output has the
\* length of the input and only the run has changed.
C11_RunAndItsEndLowercased ==
  pc = "lower_camel_case" =>
    LET k == LeadingRun(input_name)
        n == Len(input_name)
        upto == IF k < n THEN k + 1 ELSE n
    IN /\ result = LoweredAll(SubSeq(input_name, 1, upto))
                     \o SubSeq(input_name, upto + 1, n)
       /\ ( /\ \A i \in 1..k : Len(Lowered(input_name[i])) = 1
            /\ k < n => Lowered(input_name[k + 1]) = <<input_name[k + 1]>> )
          => /\ Len(result) = n
             /\ \A i \in (k + 1)..n : result[i] = input_name[i]
             /\ k = 0 => result = input_name

\* C11 witness: a name with a leading run of two or more capitals, then a
\* character that is not uppercase, then a capital, has been converted.
C11_Witness ==
  /\ pc = "lower_camel_case"
  /\ LeadingRun(input_name) >= 2
  /\ Len(input_name) >= LeadingRun(input_name) + 2
  /\ IsUpper(input_name[Len(input_name)])
  /\ result # input_name

\* The uppercase mapping of a character
Uppered(c) ==
  IF \E i \in DOMAIN LowerCase : LowerCase[i] = c
  THEN <<UpperCase[CHOOSE i \in DOMAIN LowerCase : LowerCase[i] = c]>>
  ELSE IF c = "U+00DF" THEN <<"S", "S">>
  ELSE IF c = "U+01C5" THEN <<"U+01C4">>
  ELSE <<c>>

RECURSIVE StripLeadingSigils(_)
StripLeadingSigils(s) ==
  IF s # <<>> /\ s[1] = "$" THEN StripLeadingSigils(Tail(s)) ELSE s

\* s with the underscores removed and the first character of every
\* underscore-delimited segment upper-cased; start says that s begins a
\* segment.
RECURSIVE UpperCamel(_, _)
UpperCamel(s, start) ==
  IF s = <<>> THEN <<>>
  ELSE IF s[1] = "_" THEN UpperCamel(Tail(s), TRUE)
  ELSE (IF start THEN Uppered(s[1]) ELSE <<s[1]>>) \o UpperCamel(Tail(s), FALSE)

\* C12 as stated: the output is the input without its leading sigils and
\* without underscores, the first character of every segment, the first
\* segment included, upper-cased.
C12_Original_UpperCamel ==
  pc = "snake_to_camel_case" =>
    /\ \A i \in DOMAIN result : result[i] # "_"
    /\ result = UpperCamel(StripLeadingSigils(input_name), TRUE)

\* The underscores that end at position i of s, counted back from i
UnderscoresEndingAt(s, i) ==
  Cardinality({j \in 1..i : \A m \in j..i : s[m] = "_"})

\* Position i of s holds an underscore at an odd place of its run
IsSeparator(s, i) == s[i] = "_" /\ UnderscoresEndingAt(s, i) % 2 = 1

RECURSIVE CamelFrom(_, _)
CamelFrom(s, i) ==
  IF i > Len(s) THEN <<>>
  ELSE (IF IsSeparator(s, i) THEN <<>>
        ELSE IF i > 1 /\ IsSeparator(s, i - 1) THEN Uppered(s[i])
        ELSE <<s[i]>>) \o CamelFrom(s, i + 1)

\* C12, amended: snake_to_camel_case removes every `$`, then removes each
\* underscore that stands at an odd place of its run of underscores and
\* upper-cases the character after it, and keeps every other character as
\* it is, in order: the first character is not capitalised, and the output
\* is free of underscores when no two underscores are adjacent.
C12_CamelCaseAfterUnderscore ==
  pc = "snake_to_camel_case" =>
    LET s == SelectSeq(input_name, LAMBDA c : c # "$")
    IN /\ result = CamelFrom(s, 1)
       /\ \A i \in DOMAIN result : result[i] # "$"
       /\ (s # <<>> /\ s[1] # "_") => result[1] = s[1]
       /\ (\A i \in 1..(Len(s) - 1) : ~(s[i] = "_" /\ s[i + 1] = "_"))
            => \A i \in DOMAIN result : result[i] # "_"

\* C12 witness: a name with an underscore between two small letters has
\* been converted and the letter after the underscore is a capital.
C12_Witness ==
  /\ pc = "snake_to_camel_case"
  /\ \E i \in 2..(Len(input_name) - 1) :
       /\ input_name[i] = "_"
       /\ input_name[i - 1] = "a"
       /\ input_name[i + 1] = "a"
  /\ \E i \in DOMAIN result : i > 1 /\ result[i] = "A"

---------------------------------------------------------------------------
(* The reference run: a schema map whose schemas refer to one another, then
   go::render on it *)

\* The longest any_of list of U.
MaxRefs == 3

NameW == <<"W">>
\* a name that is no key of the map
NameQ == <<"Q">>

\* The alternatives of U: Refs to the schemas of the map, a Ref to a name
\* that is no key, a Ref without the schema-collection prefix.
RefAlts ==
  {RefTo(NameV), RefTo(NameW), RefTo(NameT), RefTo(NameQ), BareRefTo(NameV)}

\* V: a union over W, over W and T, over U (a cycle), over a missing
\* name, or no union.
RefsV ==
  {AnyOf(<<RefTo(NameW)>>), AnyOf(<<RefTo(NameW), RefTo(NameT)>>),
   AnyOf(<<RefTo(NameU)>>), AnyOf(<<RefTo(NameQ)>>), String(None)}

\* W: no union, a union over T, a union over V (a cycle when V is over
\* W), a list of U.
RefsW ==
  {String(None), AnyOf(<<RefTo(NameT)>>), AnyOf(<<RefTo(NameV)>>),
   ArrayList(RefTo(NameU), None)}

\* T: a leaf, or a list whose items are a Ref to a missing name.
RefsT == {Any(None), ArrayList(RefTo(NameQ), None)}

RefMaps ==
  {[k \in {NameU, NameV, NameW, NameT} |->
      IF k = NameU THEN AnyOf(alts)
      ELSE IF k = NameV THEN v ELSE IF k = NameW THEN w ELSE t] :
     alts \in SeqsUpTo(RefAlts, MaxRefs), v \in RefsV, w \in RefsW,
     t \in RefsT}

RefsInit ==
  /\ pc = "start"
  /\ parsed_schemas \in RefMaps
  /\ schemas = parsed_schemas
  /\ conflict_behavior = Drop
  /\ result = Null
  /\ new_schemas = Null
  /\ yaml = Null
  /\ input_name = Null
  /\ type_prefixes = Null
  /\ spec = Null
  /\ prefix_items = Null
  /\ fields = Null

RefsNext == Render

SpecRefs == RefsInit /\ [][RefsNext]_vars

---------------------------------------------------------------------------
(* Claims about references in the renderer *)

\* The reference strings that occur in a schema
RECURSIVE RefStrings(_)
RefStrings(schema) ==
  CASE schema.kind = "Ref" -> {schema.sref}
    [] schema.kind = "AnyOf" ->
         UNION {RefStrings(schema.any_of[i]) : i \in DOMAIN schema.any_of}
    [] schema.kind = "Object" ->
         UNION {RefStrings(schema.properties[p]) : p \in DOMAIN schema.properties}
    [] schema.kind = "ArrayList" -> RefStrings(schema.items)
    [] schema.kind = "ArrayTuple" ->
         UNION {RefStrings(schema.prefix_items[i]) :
                  i \in DOMAIN schema.prefix_items}
    [] OTHER -> {}

HasPrefix(sref) == sref # <<>> /\ <<sref[1]>> = SCHEMA_REF_PREFIX

\* sref lacks the prefix or names no key of the lifted map
Unresolved(sref) == ~HasPrefix(sref) \/ Tail(sref) \notin DOMAIN schemas

UnresolvedRefs ==
  {sref \in UNION {RefStrings(schemas[P]) : P \in DOMAIN schemas} :
     Unresolved(sref)}

\* C13 as stated: the render of a lifted map that holds an unresolved Ref
\* ends in a returned error without text; it neither succeeds nor panics.
\* (A render that exhausts the stack on a reference cycle may not have
\* visited the Ref and is left out.)
C13_Original_UnresolvedRefIsReturnedError ==
  (pc = "rendered" /\ UnresolvedRefs # {}) =>
    /\ result.status \notin {"ok", "panic"}
    /\ result.status = "err" => result.out = <<>>

\* C13 witness: the render of a map whose union U refers to a name that is
\* no key has ended in a panic.
C13_Witness ==
  /\ pc = "rendered"
  /\ \E i \in DOMAIN parsed_schemas[NameU].any_of :
       parsed_schemas[NameU].any_of[i] = RefTo(NameQ)
  /\ result.status = "panic"

\* What holds of unresolved Refs: a render that succeeds has met no Ref
\* without the prefix, and no Ref to a missing name among the alternatives
\* of an all-Ref AnyOf.
C13_PrefixCheckedOnly ==
  (pc = "rendered" /\ result.status = "ok") =>
    /\ \A sref \in UnresolvedRefs : HasPrefix(sref)
    /\ \A P \in DOMAIN schemas :
         is_all_ref_any_of(schemas[P]) =>
           \A i \in DOMAIN schemas[P].any_of :
             ~Unresolved(schemas[P].any_of[i].sref)

---------------------------------------------------------------------------
(* Claims about the tuples the lift leaves inline *)

\* a tuple alternative with no Const or with two or more
NotLiftable(alt) ==
  alt.kind = "ArrayTuple" /\ Cardinality(ConstIndexes(alt)) # 1

\* render_schema on the top-level schema P of the lifted map (go.rs:28)
RenderOf(P) == render_schema(schemas, Some(P), schemas[P])

OnlyRefsAndOneConstTuples(alts) ==
  \A i \in DOMAIN alts : alts[i].kind = "Ref" \/ OneConstTuple(alts[i])

---------------------------------------------------------------------------
(* Claims about the rendering of an all-Ref AnyOf *)

\* n names an AnyOf of the lifted map whose alternatives are all Refs
AllRefAnyOf(n) ==
  /\ n \in DOMAIN schemas
  /\ schemas[n].kind = "AnyOf"
  /\ \A i \in DOMAIN schemas[n].any_of : schemas[n].any_of[i].kind = "Ref"

\* The names the alternatives of the all-Ref AnyOf n refer to
Targets(n) ==
  {Tail(schemas[n].any_of[i].sref) : i \in DOMAIN schemas[n].any_of}

\* The names reachable from the names of S by following Refs through
\* all-Ref AnyOf schemas
RECURSIVE ReachFrom(_)
ReachFrom(S) ==
  LET more == S \cup UNION {Targets(n) : n \in {m \in S : AllRefAnyOf(m)}}
  IN IF more = S THEN S ELSE ReachFrom(more)

Reach(n) == ReachFrom(Targets(n))

\* The all-Ref AnyOf schemas met from U, U included
UnionsFrom(U) == {n \in {U} \cup Reach(U) : AllRefAnyOf(n)}

Acyclic(U) == \A n \in UnionsFrom(U) : n \notin Reach(n)

\* Every Ref met from U carries the prefix and names a key
Resolved(U) ==
  \A n \in UnionsFrom(U) : \A i \in DOMAIN schemas[n].any_of :
    ~Unresolved(schemas[n].any_of[i].sref)

SealedBy(U) == <<"s", "e", "a", "l", "e", "d", "_">> \o U

\* How often out declares that n satisfies the marker of U
MarkerCount(out, U, n) ==
  Cardinality({i \in DOMAIN out :
                 out[i] = [tok |-> "marker", type |-> n, fn |-> SealedBy(U)]})

\* The top-level all-Ref AnyOf schemas whose Refs resolve and do not cycle
ClosedUnions ==
  {U \in DOMAIN schemas :
     /\ AllRefAnyOf(U)
     /\ schemas[U].any_of # <<>>
     /\ Resolved(U)
     /\ Acyclic(U)}

\* C15 as stated: rendering an all-Ref AnyOf U over an acyclic reference
\* graph succeeds and declares the marker of U exactly once for each schema
\* reachable from U through all-Ref AnyOfs that is not itself one, and for
\* no other schema.
C15_Original_MarkerExactlyOnce ==
  pc = "rendered" =>
    \A U \in ClosedUnions :
      /\ RenderOf(U).status = "ok"
      /\ \A n \in DOMAIN schemas :
           MarkerCount(RenderOf(U).out, U, n) =
             IF n \in Reach(U) /\ ~AllRefAnyOf(n) THEN 1 ELSE 0

\* The Ref paths from the alternatives alts to the schema n that pass
\* through all-Ref AnyOfs only
RECURSIVE PathCount(_, _, _)
PathCount(alts, i, n) ==
  IF i > Len(alts) THEN 0
  ELSE LET t == Tail(alts[i].sref)
       IN (IF AllRefAnyOf(t) THEN PathCount(schemas[t].any_of, 1, n)
           ELSE IF t = n THEN 1 ELSE 0)
          + PathCount(alts, i + 1, n)

\* What holds of such a U: the render succeeds, exactly the schemas
\* reachable from U that are not all-Ref AnyOfs are declared, and each is
\* declared once per Ref path that leads to it; in the text of a successful
\* render these are the declarations for the marker of U.
C15_MarkerOncePerPath ==
  pc = "rendered" =>
    \A U \in ClosedUnions :
      /\ RenderOf(U).status = "ok"
      /\ \A n \in DOMAIN schemas :
           /\ MarkerCount(RenderOf(U).out, U, n) >= 1
                <=> (n \in Reach(U) /\ ~AllRefAnyOf(n))
           /\ MarkerCount(RenderOf(U).out, U, n) =
                PathCount(schemas[U].any_of, 1, n)
           /\ result.status = "ok" =>
                MarkerCount(result.out, U, n) =
                  MarkerCount(RenderOf(U).out, U, n)

\* C15 witness: U over V and T, V over W and T, has been rendered and T is
\* declared twice for the marker of U.
C15_Witness ==
  /\ pc = "rendered"
  /\ result.status = "ok"
  /\ schemas[NameU] = AnyOf(<<RefTo(NameV), RefTo(NameT)>>)
  /\ schemas[NameV] = AnyOf(<<RefTo(NameW), RefTo(NameT)>>)
  /\ NameU \in ClosedUnions
  /\ MarkerCount(result.out, NameU, NameT) = 2

---------------------------------------------------------------------------
(* Claims about the names of the Normal fields *)

NormalIndexes == {j \in DOMAIN fields : fields[j].field = "Normal"}

\* The Normal fields named by a placeholder
PlaceholderIndexes == {j \in NormalIndexes : title(fields[j].schema) = None}

Placeholder(n) == <<"f">> \o Decimal(n)

\* The fields one item linearizes to
RECURSIVE Span(_)
Span(item) ==
  IF is_flattened_tuple(item)
  THEN LET RECURSIVE Sum(_)
           Sum(items) == IF items = <<>> THEN 0
                         ELSE Span(items[1]) + Sum(Tail(items))
       IN 2 + Sum(item.prefix_items)
  ELSE 1

\* The index in fields of the first field of the top-level item k
RECURSIVE FieldIndex(_)
FieldIndex(k) == IF k = 1 THEN 1 ELSE FieldIndex(k - 1) + Span(prefix_items[k - 1])

\* The top-level items that become a Normal field
NormalItems ==
  {k \in DOMAIN prefix_items :
     prefix_items[k].kind # "Const" /\ ~is_flattened_tuple(prefix_items[k])}

\* C16 as stated: a Normal field is named by its item's title, else by f
\* followed by the item's zero-based position in prefix_items, Consts
\* counted; the placeholder names of one linearization are pairwise
\* distinct.
C16_Original_PlaceholderIsPosition ==
  Built =>
    /\ \A k \in NormalItems :
         fields[FieldIndex(k)].name =
           IF title(prefix_items[k]) # None THEN title(prefix_items[k])[1]
           ELSE Placeholder(k - 1)
    /\ \A j, m \in PlaceholderIndexes :
         j # m => fields[j].name # fields[m].name

\* The items linearized before field j: one per Normal and Const field,
\* and one per flattened tuple that is closed
ItemsBefore(j) ==
  Cardinality({m \in 1..(j - 1) :
                 fields[m].field \in {"Normal", "Const", "EndIndent"}})

\* C16, amended: a Normal field is named by its item's title, else by f
\* followed by the number of items linearized before it, at every depth, a
\* flattened tuple counting once more when it is closed; without a
\* flattened tuple that number is the item's zero-based position; the
\* placeholder names of one linearization are pairwise distinct.
C16_PlaceholderIsRunningCount ==
  Built =>
    /\ \A j \in NormalIndexes :
         fields[j].name =
           IF title(fields[j].schema) # None THEN title(fields[j].schema)[1]
           ELSE Placeholder(ItemsBefore(j))
    /\ (\A k \in DOMAIN prefix_items : ~is_flattened_tuple(prefix_items[k])) =>
         \A k \in NormalItems :
           title(prefix_items[k]) = None => fields[k].name = Placeholder(k - 1)
    /\ \A j, m \in PlaceholderIndexes :
         j # m => fields[j].name # fields[m].name

\* C16 witness: a list with an untitled item inside a flattened tuple and
\* an untitled item after that tuple has been linearized; the second is
\* numbered past its position.
C16_Witness ==
  /\ pc = "built"
  /\ \E k \in NormalItems :
       /\ title(prefix_items[k]) = None
       /\ \E m \in 1..(k - 1) :
            /\ is_flattened_tuple(prefix_items[m])
            /\ \E n \in DOMAIN prefix_items[m].prefix_items :
                 prefix_items[m].prefix_items[n] = String(None)
       /\ fields[FieldIndex(k)].name # Placeholder(k - 1)
  /\ Cardinality(PlaceholderIndexes) >= 2

---------------------------------------------------------------------------
(* Claims about what the lift leaves alone *)

NewKeys == DOMAIN schemas \ DOMAIN parsed_schemas

\* C17: after a successful lift every name of the map handed in is still a
\* key; a top-level schema that is not an AnyOf is unchanged; an AnyOf is
\* still an AnyOf whose alternatives are, in order, those the Drop behavior
\* did not remove, each unchanged unless it is a lifted tuple, and nothing
\* but flagged tuples is removed; the new keys are exactly the targets of
\* the Refs put in place of the lifted tuples, one per lifted tuple, each
\* holding its tuple.
C17_LiftOnlyGrowsTheMap ==
  LiftedOk =>
    /\ DOMAIN parsed_schemas \subseteq DOMAIN schemas
    /\ \A P \in DOMAIN parsed_schemas \ AnyOfNames :
         schemas[P] = parsed_schemas[P]
    /\ \A P \in AnyOfNames :
         LET pre == parsed_schemas[P].any_of
             kept == KeptAlts(P)
             post == schemas[P].any_of
         IN /\ schemas[P].kind = "AnyOf"
            /\ kept = SelectSeq(pre, LAMBDA a :
                        ~(conflict_behavior = Drop /\ Flagged(a)))
            /\ Len(post) = Len(kept)
            /\ \A i \in DOMAIN kept :
                 IF OneConstTuple(kept[i])
                 THEN IsLiftRef(post[i])
                 ELSE post[i] = kept[i]
    /\ NewKeys = {AssignedName(q) : q \in LiftPositions}
    /\ NewKeys = DOMAIN new_schemas
    /\ Cardinality(NewKeys) = Cardinality(LiftPositions)
    /\ \A q \in LiftPositions : schemas[AssignedName(q)] = AltAt(q)

\* C17 witness: a successful lift under Drop of an AnyOf that holds, in
\* this order or another, a flagged tuple, a lifted tuple and a Const that
\* stays, beside a schema that is not an AnyOf.
C17_Witness ==
  /\ LiftedOk
  /\ conflict_behavior = Drop
  /\ \E i \in DOMAIN parsed_schemas[Foo].any_of :
       Flagged(parsed_schemas[Foo].any_of[i])
  /\ Len(schemas[Foo].any_of) >= 2
  /\ \E i \in DOMAIN schemas[Foo].any_of :
       schemas[Foo].any_of[i].kind = "Const"
  /\ Cardinality(NewKeys) >= 1
  /\ \E P \in DOMAIN parsed_schemas : P \notin AnyOfNames

===========================================================================
